---- MODULE Spec2Model ----
(***************************************************************************)
(* Model of node/network/src/service.rs: Service::new, service_task (the  *)
(* select_all race of the maintenance timer branch and the transport      *)
(* event branch) and the caller thread of test_send_message.              *)
(*                                                                         *)
(* The task is one thread of control: a poll of the task polls            *)
(* select_all, which polls the timer branch (futures[0]) and then the     *)
(* network branch (futures[1]); each for_each loops until its stream is   *)
(* not ready.  The position inside that poll is pc.  The transport, the   *)
(* clock and the caller thread run concurrently with it.                  *)
(***************************************************************************)
EXTENDS Integers, Sequences, FiniteSets, TLC

\* ---------------------------------------------------------------- bounds
MaxPeer == 1        \* peer indices 1..MaxPeer
MaxPayload == 1     \* payloads 1..MaxPayload
MaxEvents == 2      \* transport events produced in one run
MaxTicks == 2       \* ticks elapsed in one run

\* ------------------------------------------------------------- constants
SamplePeers == 1    \* service.protocol.sample_peers(1): peers the caller sends to
FakeTxMessage == 1  \* fake_tx_message(): the payload the caller sends

Peers == 1..MaxPeer
Payloads == 1..MaxPayload

\* --------------------------------------------------------------- values
Unit == "()"
NoErr == "-"
PollErrors == {"ConnectionReset", "BrokenPipe"}
StartErrors == {"AddrInUse", "InvalidAddr"}
TimerErrors == {"TimerShutdown"}

NoEvent == [kind |-> "None", node_index |-> 0, data |-> 0, id |-> 0]
CustomMessage(p, d, i) == [kind |-> "CustomMessage", node_index |-> p, data |-> d, id |-> i]
OpenedCustomProtocol(p, i) == [kind |-> "OpenedCustomProtocol", node_index |-> p, data |-> 0, id |-> i]
ClosedCustomProtocol(p, i) == [kind |-> "ClosedCustomProtocol", node_index |-> p, data |-> 0, id |-> i]
OtherEvent(i) == [kind |-> "Other", node_index |-> 0, data |-> 0, id |-> i]

\* Results of a poll: Ok(Ready(Some(e))), Ok(Ready(None)), Ok(NotReady), Err(e)
Ready(e) == [res |-> "Some", event |-> e, err |-> NoErr]
ReadyNone == [res |-> "None", event |-> NoEvent, err |-> NoErr]
NotReady == [res |-> "NotReady", event |-> NoEvent, err |-> NoErr]
PollErr(e) == [res |-> "Err", event |-> NoEvent, err |-> e]

\* Result<(), E>
Ok == [kind |-> "Ok", err |-> NoErr]
Err(e) == [kind |-> "Err", err |-> e]
NoResult == [kind |-> "None", err |-> NoErr]

\* NetSyncIo::new(&network_service, protocol_id)
NetSyncIo(id, owner) == [id |-> id, owner |-> owner, network |-> "network_service", protocol_id |-> "protocol_id"]

VARIABLES
    startResult,  \* what start_service returned: NoResult before the call
    newResult,    \* what Service::new returned: NoResult before the call
    service,      \* TRUE once a Service value has been returned
    task,         \* "none" | "created" | "running" | "done"
    pc,           \* position of the task inside its poll
    branch,       \* the branch whose callback is executing: "timer" | "network"
    timerBr,      \* result of the timer future: NoResult while it runs
    netBr,        \* result of the network future: NoResult while it runs
    lockHolders,  \* operations holding the Mutex<NetworkService>
    netQ,         \* events the transport will yield on the next polls
    netEnded,     \* the transport stream ends once netQ is drained
    netFail,      \* the transport fails the poll that follows the queued events
    produced,     \* number of transport events produced
    opened,       \* peer indices the transport has opened
    closed,       \* peer indices the transport has closed
    pendingTicks, \* ticks elapsed and not yet yielded by the Interval
    tickEnded,    \* the Interval stream ends once the pending ticks are drained
    tickFail,     \* error the Interval reports once the pending ticks are drained
    elapsed,      \* number of ticks elapsed
    tickNo,       \* number of ticks the Interval has yielded to for_each
    polled,       \* events poll() has returned to the event for_each, in order
    everPolled,   \* the task has called poll() on the transport
    pollRes,      \* the result of the transport poll in progress
    callbacks,    \* protocol callbacks made by the task, in order
    lastMaintain, \* how the latest maintain_peers call that returned went
    tickFirst,    \* since the last event was handled, a maintain_peers call
                  \* has started while an event was waiting
    nextAdapter,  \* number of adapters the task has constructed so far
    liveAdapters, \* adapters constructed and not yet dropped
    taskAdapter,  \* id of the adapter the task's current closure holds (0: none)
    logs,         \* log lines written by the task
    outcome,      \* terminal outcomes of service_task
    outerOutcome, \* terminal outcomes of the task returned by Service::new
    caller,       \* caller thread: "idle" | "sending"
    sends,        \* send_message calls completed by the caller thread
    protoPeers,   \* peers the protocol engine knows (sample_peers)
    sent,         \* messages the caller thread has passed to send_message
    remoteQ,      \* events the transport of the remote service will yield
    remoteCallbacks \* protocol callbacks made by the task of the remote service

ctorVars == <<startResult, newResult, service>>
netVars == <<netQ, netEnded, netFail, produced, opened, closed>>
tickVars == <<pendingTicks, tickEnded, tickFail, elapsed>>
brVars == <<timerBr, netBr>>
pollVars == <<polled, everPolled, pollRes>>
cbVars == <<callbacks, lastMaintain, tickFirst, branch, protoPeers>>
adapterVars == <<nextAdapter, liveAdapters, taskAdapter>>
resultVars == <<outcome, outerOutcome>>
remoteVars == <<sent, remoteQ, remoteCallbacks>>
callerVars == <<caller, sends, remoteVars>>

vars == <<ctorVars, task, pc, brVars, lockHolders, netVars, tickVars, tickNo,
          pollVars, cbVars, adapterVars, logs, resultVars, callerVars>>

Init ==
    /\ startResult = NoResult
    /\ newResult = NoResult
    /\ service = FALSE
    /\ task = "none"
    /\ pc = "idle"
    /\ branch = "timer"
    /\ timerBr = NoResult
    /\ netBr = NoResult
    /\ lockHolders = {}
    /\ netQ = <<>>
    /\ netEnded = FALSE
    /\ netFail = FALSE
    /\ produced = 0
    /\ opened = {}
    /\ closed = {}
    /\ pendingTicks = 0
    /\ tickEnded = FALSE
    /\ tickFail = NoErr
    /\ elapsed = 0
    /\ tickNo = 0
    /\ polled = <<>>
    /\ everPolled = FALSE
    /\ pollRes = NotReady
    /\ callbacks = <<>>
    /\ lastMaintain = "none"
    /\ nextAdapter = 0
    /\ liveAdapters = {}
    /\ taskAdapter = 0
    /\ logs = <<>>
    /\ outcome = <<>>
    /\ outerOutcome = <<>>
    /\ caller = "idle"
    /\ sends = 0
    /\ protoPeers = {}
    /\ tickFirst = FALSE
    /\ sent = <<>>
    /\ remoteQ = <<>>
    /\ remoteCallbacks = <<>>

\* ------------------------------------------------------- Service::new
\* e.into(): the start error wrapped into error::Error
IntoError(e) == "Error(" \o e \o ")"

\* start_service fails -> return Err(e.into()) before service_task is called;
\* otherwise the task is built (not driven) and returned with the Service.
\* Mutant: the task is built before the start result is examined.
TaskBuiltOnStart_always(startOk) == "created"

TaskBuiltOnStart(startOk) == IF startOk THEN "created" ELSE "none"

New(startOk, cause) ==
    /\ newResult = NoResult
    /\ startResult' = IF startOk THEN Ok ELSE Err(cause)
    /\ newResult' = IF startOk THEN Ok ELSE Err(IntoError(cause))
    /\ service' = startOk
    /\ task' = TaskBuiltOnStart(startOk)
    /\ UNCHANGED <<pc, brVars, lockHolders, netVars, tickVars, tickNo,
                   pollVars, cbVars, adapterVars, logs, resultVars, callerVars>>

\* The caller hands the task to an executor (runtime.spawn(task)).
Spawn ==
    /\ task = "created"
    /\ task' = "running"
    /\ UNCHANGED <<ctorVars, pc, brVars, lockHolders, netVars, tickVars, tickNo,
                   pollVars, cbVars, adapterVars, logs, resultVars, callerVars>>

\* Mutant: the task starts running as soon as it is built.
TaskDriven_eager == task \in {"created", "running"}

\* The task does work only while an executor polls it.
TaskDriven == task = "running"

\* ------------------------------------------------ the clock (Interval)
\* As for the transport, the clock is observed at the polls of the Interval.
ClockLive ==
    /\ task \in {"created", "running"} /\ ~tickEnded /\ tickFail = NoErr
    /\ pc \in {"idle", "timer_poll"}

\* One TICK_TIMEOUT period elapses: the Interval has one more tick to yield.
\* A period may also elapse after the Interval was polled in this poll of the
\* task, while the transport still has events for the network future: that
\* tick waits until the task is polled again (as do the ticks after it, which
\* are taken when the task is idle).
TickElapse ==
    /\ task \in {"created", "running"} /\ ~tickEnded /\ tickFail = NoErr
    /\ \/ pc \in {"idle", "timer_poll"}
       \/ (pc = "net_poll" /\ netQ # <<>> /\ pendingTicks = 0)
    /\ elapsed < MaxTicks
    /\ elapsed' = elapsed + 1
    /\ pendingTicks' = pendingTicks + 1
    /\ UNCHANGED <<ctorVars, task, pc, brVars, lockHolders, netVars, tickEnded,
                   tickFail, tickNo, pollVars, cbVars, adapterVars, logs,
                   resultVars, callerVars>>

\* The timer reports an error on the next poll after the pending ticks.  The
\* task sees the error at the poll that finds no tick pending, so the step is
\* taken there.
TickError(e) ==
    /\ ClockLive
    /\ pendingTicks = 0 /\ pc = "timer_poll"
    /\ tickFail' = e
    /\ UNCHANGED <<ctorVars, task, pc, brVars, lockHolders, netVars,
                   pendingTicks, tickEnded, elapsed, tickNo, pollVars, cbVars,
                   adapterVars, logs, resultVars, callerVars>>

\* The tick stream ends (yields None) after the pending ticks.
TickEnd ==
    /\ ClockLive
    /\ pendingTicks = 0 /\ pc = "timer_poll"
    /\ tickEnded' = TRUE
    /\ UNCHANGED <<ctorVars, task, pc, brVars, lockHolders, netVars,
                   pendingTicks, tickFail, elapsed, tickNo, pollVars, cbVars,
                   adapterVars, logs, resultVars, callerVars>>

\* ------------------------------------------------------- the transport
\* The transport runs in the background once start_service has succeeded.
\* An event produced while the task is between two polls is seen by the task
\* at its next poll() at the earliest, so production is taken at those points.
TransportLive ==
    /\ service /\ task # "done" /\ ~netEnded /\ ~netFail
    /\ pc \in {"idle", "net_poll"}

\* Mutant: the transport yields events for an index whatever its connection state.
Connected_any(p) == TRUE

\* A peer index is valid only while its connection is open: from its
\* OpenedCustomProtocol to its ClosedCustomProtocol, and it is not reused.
Connected(p) == p \in opened \ closed

Produce(e) ==
    /\ TransportLive
    /\ produced < MaxEvents
    /\ produced' = produced + 1
    /\ netQ' = Append(netQ, e)

TransportOpen(p) ==
    /\ p \notin opened
    /\ Produce(OpenedCustomProtocol(p, produced + 1))
    /\ opened' = opened \cup {p}
    /\ UNCHANGED <<ctorVars, task, pc, brVars, lockHolders, netEnded, netFail,
                   closed, tickVars, tickNo, pollVars, cbVars, adapterVars,
                   logs, resultVars, callerVars>>

TransportMessage(p, d) ==
    /\ Connected(p)
    /\ Produce(CustomMessage(p, d, produced + 1))
    /\ UNCHANGED <<ctorVars, task, pc, brVars, lockHolders, netEnded, netFail,
                   opened, closed, tickVars, tickNo, pollVars, cbVars,
                   adapterVars, logs, resultVars, callerVars>>

TransportClose(p) ==
    /\ Connected(p)
    /\ Produce(ClosedCustomProtocol(p, produced + 1))
    /\ closed' = closed \cup {p}
    /\ UNCHANGED <<ctorVars, task, pc, brVars, lockHolders, netEnded, netFail,
                   opened, tickVars, tickNo, pollVars, cbVars, adapterVars,
                   logs, resultVars, callerVars>>

TransportOther ==
    /\ Produce(OtherEvent(produced + 1))
    /\ UNCHANGED <<ctorVars, task, pc, brVars, lockHolders, netEnded, netFail,
                   opened, closed, tickVars, tickNo, pollVars, cbVars,
                   adapterVars, logs, resultVars, callerVars>>

\* The transport will fail the poll that follows the queued events.  The task
\* sees the failure at the poll that finds no event queued, so the step is
\* taken there.
TransportError ==
    /\ TransportLive
    /\ netQ = <<>> /\ pc = "net_poll"
    /\ netFail' = TRUE
    /\ UNCHANGED <<ctorVars, task, pc, brVars, lockHolders, netQ, netEnded,
                   produced, opened, closed, tickVars, tickNo, pollVars,
                   cbVars, adapterVars, logs, resultVars, callerVars>>

\* Clean shutdown: poll yields end-of-stream after the queued events.
TransportEnd ==
    /\ TransportLive
    /\ netQ = <<>> /\ pc = "net_poll"
    /\ netEnded' = TRUE
    /\ UNCHANGED <<ctorVars, task, pc, brVars, lockHolders, netQ, netFail,
                   produced, opened, closed, tickVars, tickNo, pollVars,
                   cbVars, adapterVars, logs, resultVars, callerVars>>

\* ----------------------------------------------- combinators of the task
\* Stream::for_each on one poll of its stream: None completes it with Ok, an
\* error of the stream completes it with that error, an item calls the closure.
ForEachCompletes(r) ==
    IF r.res = "None" THEN Ok
    ELSE IF r.res = "Err" THEN Err(r.err)
    ELSE NoResult

\* Mutant: then() hands the result of for_each on instead of Ok(()).
ThenTimer_propagate(res) == res

\* .then(|res| { log the error; Ok(()) }) on the timer for_each
ThenTimer(res) == Ok

ThenTimerLog(res) ==
    IF res.kind = "Err"
    THEN <<[level |-> "error", msg |-> "Error in the propagation timer", arg |-> res.err]>>
    ELSE <<>>

\* Mutant: the closure reports a failure inside maintain_peers as its error.
MaintainClosureResult_propagate(out) ==
    IF out = "failed" THEN Err("maintain_peers") ELSE Ok

\* The timer closure: maintain_peers returns nothing; the closure returns Ok(()).
MaintainClosureResult(out) == Ok

\* Mutant: a join instead of a race, ready once both futures are.
SelectAllReady_join(tb, nb) == tb # NoResult /\ nb # NoResult

\* select_all(vec![timer, network]) is ready as soon as one future is.
SelectAllReady(tb, nb) == tb # NoResult \/ nb # NoResult

\* (result, index, remaining futures) of the first ready future in vec order
SelectAllResult(tb, nb) ==
    IF tb # NoResult THEN <<tb, 0, <<"network">>>> ELSE <<nb, 1, <<"timer">>>>

\* .and_then(|_| { info!; Ok(()) }).map_err(|(r, _, _)| r)
ServiceTaskResult(t) == IF t[1].kind = "Ok" THEN Ok ELSE Err(t[1].err)

ServiceTaskLog(t) ==
    IF t[1].kind = "Ok"
    THEN <<[level |-> "info", msg |-> "Networking ended", arg |-> NoErr]>>
    ELSE <<>>

\* Mutant: the map_err of Service::new keeps the error.
NewMapErr_keep(r) == r

\* Service::new: service_task(..).map_err(|e| { debug!("service error") })
NewMapErr(r) == IF r.kind = "Err" THEN Err(Unit) ELSE r

NewMapErrLog(r) ==
    IF r.kind = "Err"
    THEN <<[level |-> "debug", msg |-> "service error", arg |-> r.err]>>
    ELSE <<>>

\* Mutant: select_all polls every future before it looks at the results.
NextAfterTimer_pollAll(tb, nb) ==
    IF nb = NoResult THEN "net_lock"
    ELSE IF SelectAllReady(tb, nb) THEN "select_done" ELSE "idle"

\* Where the poll of select_all goes once the timer future has been polled.
NextAfterTimer(tb, nb) ==
    IF SelectAllReady(tb, nb) THEN "select_done"
    ELSE IF nb = NoResult THEN "net_lock" ELSE "idle"

\* Where the poll of select_all goes once the network future has been polled.
NextAfterNet(tb, nb) == IF SelectAllReady(tb, nb) THEN "select_done" ELSE "idle"

\* Mutant: one closure call consumes every tick that is due.
TickItems_coalesce(pending) == pending

\* Interval::for_each: the closure is called once for each item the stream
\* yields, and a poll of the Interval yields one tick.
TickItems(pending) == 1

\* Interval::poll
TimerStreamPoll ==
    IF pendingTicks > 0 THEN Ready([kind |-> "Tick", node_index |-> 0, data |-> 0, id |-> tickNo + 1])
    ELSE IF tickFail # NoErr THEN PollErr(tickFail)
    ELSE IF tickEnded THEN ReadyNone
    ELSE NotReady

\* Mutant: the transport poll yields nothing while a tick is due.
NetStreamPoll_afterTicks(e) ==
    IF pendingTicks > 0 THEN NotReady
    ELSE IF netQ # <<>> THEN Ready(Head(netQ))
    ELSE IF netFail THEN PollErr(e)
    ELSE IF netEnded THEN ReadyNone
    ELSE NotReady

\* network_service1.lock().poll()
NetStreamPoll(e) ==
    IF netQ # <<>> THEN Ready(Head(netQ))
    ELSE IF netFail THEN PollErr(e)
    ELSE IF netEnded THEN ReadyNone
    ELSE NotReady

\* Mutant: the event branch polls the transport without waiting for the mutex.
PollLock_unguarded(holders) == TRUE

\* parking_lot::Mutex::lock of the event branch: waits until the mutex is free
PollLock(holders) == holders = {}

\* The lock an adapter command takes on the network handle.
AdapterLock(holders) == holders = {}

\* Mutant: the guard of the poll lives on into the event closure.
PollUnlock_held(holders) == holders

\* network_service1.lock().poll(): the guard is a temporary of the poll_fn
\* closure and is dropped when poll() has returned.
PollUnlock(holders) == holders \ {"poll"}

Callback(cb, p, d, ev, tick, a) ==
    [cb |-> cb, node_index |-> p, data |-> d, ev |-> ev, tick |-> tick,
     adapter |-> a, outcome |-> "running"]

\* Mutant: on_message is called without the payload of the event.
Dispatch_noPayload(e, a) ==
    CASE e.kind = "CustomMessage" -> Callback("on_message", e.node_index, 0, e.id, 0, a)
      [] e.kind = "OpenedCustomProtocol" -> Callback("on_peer_connected", e.node_index, 0, e.id, 0, a)
      [] e.kind = "ClosedCustomProtocol" -> Callback("on_peer_disconnected", e.node_index, 0, e.id, 0, 0)
      [] OTHER -> Callback("none", 0, 0, e.id, 0, 0)

\* Mutant: the `_` arm treats an unknown event as a disconnect.
Dispatch_otherAsClosed(e, a) ==
    CASE e.kind = "CustomMessage" -> Callback("on_message", e.node_index, e.data, e.id, 0, a)
      [] e.kind = "OpenedCustomProtocol" -> Callback("on_peer_connected", e.node_index, 0, e.id, 0, a)
      [] OTHER -> Callback("on_peer_disconnected", e.node_index, 0, e.id, 0, 0)

\* Mutant: OpenedCustomProtocol falls into the `_` arm.
Dispatch_skipOpened(e, a) ==
    CASE e.kind = "CustomMessage" -> Callback("on_message", e.node_index, e.data, e.id, 0, a)
      [] e.kind = "ClosedCustomProtocol" -> Callback("on_peer_disconnected", e.node_index, 0, e.id, 0, 0)
      [] OTHER -> Callback("none", 0, 0, e.id, 0, 0)

\* match event { .. }: the protocol callback an event is dispatched to
Dispatch(e, a) ==
    CASE e.kind = "CustomMessage" -> Callback("on_message", e.node_index, e.data, e.id, 0, a)
      [] e.kind = "OpenedCustomProtocol" -> Callback("on_peer_connected", e.node_index, 0, e.id, 0, a)
      [] e.kind = "ClosedCustomProtocol" -> Callback("on_peer_disconnected", e.node_index, 0, e.id, 0, 0)
      [] OTHER -> Callback("none", 0, 0, e.id, 0, 0)

\* Mutant: the adapter is kept after the closure that built it has returned.
DropAdapter_retain(live, a) == live

\* The adapter goes out of scope when the closure that built it returns.
DropAdapter(live, a) == {x \in live : ~(x.owner = "task" /\ x.id = a)}

\* The protocol engine's peer table (what sample_peers draws from).
PeersAfter(c, peers) ==
    CASE c.cb = "on_peer_connected" -> peers \cup {c.node_index}
      [] c.cb = "on_peer_disconnected" -> peers \ {c.node_index}
      [] OTHER -> peers

Executing == pc \in {"in_callback", "adapter_cmd"}

\* Mutant: the task is polled again while a callback of its last poll runs.
TaskIdle_reentrant == pc \in {"idle", "in_callback"}

\* The task is one future: the closures run inside its poll, and the
\* executor polls it again only after that poll has returned.
TaskIdle == pc = "idle"

\* ------------------------------------------------------ the service task
\* The executor polls the task: select_all polls futures[0], the timer.
TaskPoll ==
    /\ TaskDriven
    /\ TaskIdle
    /\ pc' = IF timerBr = NoResult THEN "timer_poll" ELSE "net_lock"
    /\ UNCHANGED <<ctorVars, task, brVars, lockHolders, netVars, tickVars,
                   tickNo, pollVars, cbVars, adapterVars, logs, resultVars,
                   callerVars>>

\* The Interval yields a tick: the closure builds an adapter and calls
\* protocol.maintain_peers with it.
TimerTick ==
    /\ TaskDriven
    /\ pc = "timer_poll"
    /\ TimerStreamPoll.res = "Some"
    /\ pendingTicks' = pendingTicks - TickItems(pendingTicks)
    /\ tickNo' = tickNo + 1
    /\ nextAdapter' = nextAdapter + 1
    /\ liveAdapters' = liveAdapters \cup {NetSyncIo(nextAdapter + 1, "task")}
    /\ taskAdapter' = nextAdapter + 1
    /\ callbacks' = Append(callbacks,
           Callback("maintain_peers", 0, 0, 0, TimerStreamPoll.event.id, nextAdapter + 1))
    /\ branch' = "timer"
    /\ tickFirst' = (tickFirst \/ netQ # <<>>)
    /\ pc' = "in_callback"
    /\ UNCHANGED <<ctorVars, task, brVars, lockHolders, netVars, tickEnded,
                   tickFail, elapsed, pollVars, lastMaintain, protoPeers, logs,
                   resultVars, callerVars>>

\* The Interval ends or fails: for_each completes, then() logs an error and
\* turns the result into Ok(()), and the timer future is complete.
TimerEnds ==
    /\ TaskDriven
    /\ pc = "timer_poll"
    /\ TimerStreamPoll.res \in {"None", "Err"}
    /\ LET r == TimerStreamPoll
           fr == ForEachCompletes(r)
           tb == IF fr = NoResult THEN NoResult ELSE ThenTimer(fr)
       IN /\ tickFail' = IF r.res = "Err" THEN NoErr ELSE tickFail
          /\ timerBr' = tb
          /\ logs' = logs \o (IF fr = NoResult THEN <<>> ELSE ThenTimerLog(fr))
          /\ pc' = IF fr = NoResult THEN "timer_poll" ELSE NextAfterTimer(tb, netBr)
    /\ UNCHANGED <<ctorVars, task, netBr, lockHolders, netVars, pendingTicks,
                   tickEnded, elapsed, tickNo, pollVars, cbVars, adapterVars,
                   resultVars, callerVars>>

\* No tick is due: the timer future is not ready, select_all polls futures[1].
TimerNotReady ==
    /\ TaskDriven
    /\ pc = "timer_poll"
    /\ TimerStreamPoll.res = "NotReady"
    /\ pc' = NextAfterTimer(timerBr, netBr)
    /\ UNCHANGED <<ctorVars, task, brVars, lockHolders, netVars, tickVars,
                   tickNo, pollVars, cbVars, adapterVars, logs, resultVars,
                   callerVars>>

\* A callback that was given an adapter issues a command through it.
AdapterCmdLock ==
    /\ TaskDriven
    /\ pc = "in_callback"
    /\ callbacks[Len(callbacks)].adapter # 0
    /\ AdapterLock(lockHolders)
    /\ lockHolders' = lockHolders \cup {"task_adapter"}
    /\ pc' = "adapter_cmd"
    /\ UNCHANGED <<ctorVars, task, brVars, netVars, tickVars, tickNo, pollVars,
                   cbVars, adapterVars, logs, resultVars, callerVars>>

AdapterCmdUnlock ==
    /\ TaskDriven
    /\ pc = "adapter_cmd"
    /\ lockHolders' = lockHolders \ {"task_adapter"}
    /\ pc' = "in_callback"
    /\ UNCHANGED <<ctorVars, task, brVars, netVars, tickVars, tickNo, pollVars,
                   cbVars, adapterVars, logs, resultVars, callerVars>>

\* maintain_peers returns (whatever happened inside it); the temporary adapter
\* is dropped, the closure returns and for_each polls the Interval again.
MaintainReturn(out) ==
    /\ TaskDriven
    /\ pc = "in_callback"
    /\ branch = "timer"
    /\ callbacks' = [callbacks EXCEPT ![Len(callbacks)].outcome = "returned"]
    /\ lastMaintain' = out
    /\ liveAdapters' = DropAdapter(liveAdapters, taskAdapter)
    /\ taskAdapter' = 0
    /\ LET cr == MaintainClosureResult(out)
           tb == IF cr.kind = "Ok" THEN timerBr ELSE ThenTimer(cr)
       IN /\ timerBr' = tb
          /\ logs' = logs \o (IF cr.kind = "Ok" THEN <<>> ELSE ThenTimerLog(cr))
          /\ pc' = IF cr.kind = "Ok" THEN "timer_poll" ELSE NextAfterTimer(tb, netBr)
    /\ UNCHANGED <<ctorVars, task, netBr, lockHolders, netVars, tickVars,
                   tickNo, pollVars, tickFirst, branch, protoPeers, nextAdapter,
                   resultVars, callerVars>>

\* stream::poll_fn(move || network_service1.lock().poll()): take the lock
NetLock ==
    /\ TaskDriven
    /\ pc = "net_lock"
    /\ PollLock(lockHolders)
    /\ lockHolders' = lockHolders \cup {"poll"}
    /\ pc' = "net_poll"
    /\ UNCHANGED <<ctorVars, task, brVars, netVars, tickVars, tickNo, pollVars,
                   cbVars, adapterVars, logs, resultVars, callerVars>>

\* ... poll the transport, and release the lock at the end of the statement.
NetPoll(e) ==
    /\ TaskDriven
    /\ pc = "net_poll"
    /\ LET r == NetStreamPoll(e)
       IN /\ pollRes' = r
          /\ polled' = IF r.res = "Some" THEN Append(polled, r.event) ELSE polled
          /\ netQ' = IF r.res = "Some" THEN Tail(netQ) ELSE netQ
          /\ netFail' = IF r.res = "Err" THEN FALSE ELSE netFail
    /\ everPolled' = TRUE
    /\ lockHolders' = PollUnlock(lockHolders)
    /\ pc' = "net_polled"
    /\ UNCHANGED <<ctorVars, task, brVars, netEnded, produced, opened, closed,
                   tickVars, tickNo, cbVars, adapterVars, logs, resultVars,
                   callerVars>>

\* The event closure: build the adapter, match the event, call the callback.
NetDispatch ==
    /\ TaskDriven
    /\ pc = "net_polled"
    /\ pollRes.res = "Some"
    /\ Dispatch(pollRes.event, nextAdapter + 1).cb # "none"
    /\ LET c == Dispatch(pollRes.event, nextAdapter + 1)
       IN /\ callbacks' = Append(callbacks, c)
          /\ protoPeers' = PeersAfter(c, protoPeers)
    /\ nextAdapter' = nextAdapter + 1
    /\ liveAdapters' = liveAdapters \cup {NetSyncIo(nextAdapter + 1, "task")}
    /\ taskAdapter' = nextAdapter + 1
    /\ logs' = Append(logs, [level |-> "debug", msg |-> "event", arg |-> pollRes.event.kind])
    /\ branch' = "network"
    /\ pc' = "in_callback"
    /\ UNCHANGED <<ctorVars, task, brVars, lockHolders, netVars, tickVars,
                   tickNo, pollVars, lastMaintain, tickFirst, resultVars,
                   callerVars>>

\* The event closure on any other event: the `_` arm, no callback.
NetIgnore ==
    /\ TaskDriven
    /\ pc = "net_polled"
    /\ pollRes.res = "Some"
    /\ Dispatch(pollRes.event, nextAdapter + 1).cb = "none"
    /\ nextAdapter' = nextAdapter + 1
    /\ logs' = logs \o <<[level |-> "debug", msg |-> "event", arg |-> pollRes.event.kind],
                         [level |-> "debug", msg |-> "TODO", arg |-> NoErr]>>
    /\ tickFirst' = FALSE
    /\ pc' = "net_lock"
    /\ UNCHANGED <<ctorVars, task, brVars, lockHolders, netVars, tickVars,
                   tickNo, pollVars, callbacks, lastMaintain, branch,
                   protoPeers, liveAdapters, taskAdapter, resultVars,
                   callerVars>>

\* The event callback returns; net_sync is dropped, the closure returns Ok(())
\* and for_each polls the transport again.
EventReturn ==
    /\ TaskDriven
    /\ pc = "in_callback"
    /\ branch = "network"
    /\ callbacks' = [callbacks EXCEPT ![Len(callbacks)].outcome = "returned"]
    /\ tickFirst' = FALSE
    /\ liveAdapters' = DropAdapter(liveAdapters, taskAdapter)
    /\ taskAdapter' = 0
    /\ pc' = "net_lock"
    /\ UNCHANGED <<ctorVars, task, brVars, lockHolders, netVars, tickVars,
                   tickNo, pollVars, lastMaintain, branch, protoPeers,
                   nextAdapter, logs, resultVars, callerVars>>

\* The transport poll returned end-of-stream or an error: the event for_each,
\* and with it the network future, completes.
NetEnds ==
    /\ TaskDriven
    /\ pc = "net_polled"
    /\ pollRes.res \in {"None", "Err"}
    /\ LET fr == ForEachCompletes(pollRes)
       IN /\ netBr' = fr
          /\ pc' = IF fr = NoResult THEN "net_lock" ELSE NextAfterNet(timerBr, fr)
    /\ UNCHANGED <<ctorVars, task, timerBr, lockHolders, netVars, tickVars,
                   tickNo, pollVars, cbVars, adapterVars, logs, resultVars,
                   callerVars>>

\* The transport has nothing: both futures are not ready, the poll returns.
NetNotReady ==
    /\ TaskDriven
    /\ pc = "net_polled"
    /\ pollRes.res = "NotReady"
    /\ pc' = NextAfterNet(timerBr, netBr)
    /\ UNCHANGED <<ctorVars, task, brVars, lockHolders, netVars, tickVars,
                   tickNo, pollVars, cbVars, adapterVars, logs, resultVars,
                   callerVars>>

\* select_all resolved: the remaining future is dropped and the task yields
\* its outcome, through and_then/map_err and the map_err of Service::new.
SelectDone ==
    /\ TaskDriven
    /\ pc = "select_done"
    /\ LET t == SelectAllResult(timerBr, netBr)
           r == ServiceTaskResult(t)
       IN /\ outcome' = Append(outcome, r)
          /\ outerOutcome' = Append(outerOutcome, NewMapErr(r))
          /\ logs' = logs \o ServiceTaskLog(t) \o NewMapErrLog(r)
    /\ task' = "done"
    /\ pc' = "done"
    /\ UNCHANGED <<ctorVars, brVars, lockHolders, netVars, tickVars, tickNo,
                   pollVars, cbVars, adapterVars, callerVars>>

\* ------------------------------------- the caller thread (test_send_message)
\* What the transport does with a message it was handed for peer index p:
\* while the connection is open the remote side observes it as one
\* CustomMessage event carrying the same bytes, otherwise it is dropped.
Deliver(q, m, live) ==
    IF live THEN Append(q, CustomMessage(m.to, m.data, m.id)) ELSE q

\* for peer in service.protocol.sample_peers(1) { let message = fake_tx_message();
\* NetSyncIo::new(..); service.protocol.send_message(&mut net_sync, peer, &message):
\* the adapter is local to the caller thread until its command locks the
\* network handle ...
CallerSendLock(p) ==
    /\ service
    /\ caller = "idle"
    /\ sends < SamplePeers
    /\ p \in protoPeers
    /\ AdapterLock(lockHolders)
    /\ liveAdapters' = liveAdapters \cup {NetSyncIo(sends + 1, "caller")}
    /\ lockHolders' = lockHolders \cup {"caller_adapter"}
    /\ caller' = "sending"
    /\ sent' = Append(sent, [to |-> p, data |-> FakeTxMessage, id |-> Len(sent) + 1,
                             status |-> "sending"])
    /\ UNCHANGED <<ctorVars, task, pc, brVars, netVars, tickVars, tickNo,
                   pollVars, cbVars, nextAdapter, taskAdapter, logs,
                   resultVars, sends, remoteQ, remoteCallbacks>>

\* ... hands the message to the transport and releases the lock; net_sync is
\* dropped at the end of the loop body.
CallerSendDone ==
    /\ caller = "sending"
    /\ lockHolders' = lockHolders \ {"caller_adapter"}
    /\ liveAdapters' = {x \in liveAdapters : x.owner # "caller"}
    /\ caller' = "idle"
    /\ sends' = sends + 1
    /\ LET m == sent[Len(sent)]
           live == Connected(m.to)
       IN /\ sent' = [sent EXCEPT ![Len(sent)].status =
                          IF live THEN "delivered" ELSE "dropped"]
          /\ remoteQ' = Deliver(remoteQ, m, live)
    /\ UNCHANGED <<ctorVars, task, pc, brVars, netVars, tickVars, tickNo,
                   pollVars, cbVars, nextAdapter, taskAdapter, logs,
                   resultVars, remoteCallbacks>>

\* ------------------------------------------------------ the remote service
\* The task of the remote service (the same service_task) polls its transport
\* and dispatches the event through the same match.
RemoteDispatch ==
    /\ remoteQ # <<>>
    /\ remoteQ' = Tail(remoteQ)
    /\ remoteCallbacks' =
           LET c == Dispatch(Head(remoteQ), Len(remoteCallbacks) + 1)
           IN IF c.cb = "none" THEN remoteCallbacks
              ELSE Append(remoteCallbacks, [c EXCEPT !.outcome = "returned"])
    /\ UNCHANGED <<ctorVars, task, pc, brVars, lockHolders, netVars, tickVars,
                   tickNo, pollVars, cbVars, adapterVars, logs, resultVars,
                   caller, sends, sent>>

\* ---------------------------------------------------------- specification
Next ==
    \/ \E ok \in BOOLEAN, cause \in StartErrors : New(ok, cause)
    \/ Spawn
    \/ TickElapse
    \/ \E e \in TimerErrors : TickError(e)
    \/ TickEnd
    \/ \E p \in Peers : TransportOpen(p)
    \/ \E p \in Peers, d \in Payloads : TransportMessage(p, d)
    \/ \E p \in Peers : TransportClose(p)
    \/ TransportOther
    \/ TransportError
    \/ TransportEnd
    \/ TaskPoll
    \/ TimerTick
    \/ TimerEnds
    \/ TimerNotReady
    \/ AdapterCmdLock
    \/ AdapterCmdUnlock
    \/ \E out \in {"ok", "failed"} : MaintainReturn(out)
    \/ NetLock
    \/ \E e \in PollErrors : NetPoll(e)
    \/ NetDispatch
    \/ NetIgnore
    \/ EventReturn
    \/ NetEnds
    \/ NetNotReady
    \/ SelectDone
    \/ \E p \in Peers : CallerSendLock(p)
    \/ CallerSendDone
    \/ RemoteDispatch

Spec == Init /\ [][Next]_vars

TypeOK ==
    /\ task \in {"none", "created", "running", "done"}
    /\ pc \in {"idle", "timer_poll", "in_callback", "adapter_cmd", "net_lock",
               "net_poll", "net_polled", "select_done", "done"}
    /\ lockHolders \subseteq {"poll", "task_adapter", "caller_adapter"}
    /\ pendingTicks \in 0..MaxTicks
    /\ Len(netQ) <= MaxEvents

\* ================================================================ claims
DispatchableKinds == {"CustomMessage", "OpenedCustomProtocol", "ClosedCustomProtocol"}

\* The event poll() returned last has not reached the closure yet.
InFlight(i) == i = Len(polled) /\ pc = "net_polled" /\ pollRes.res = "Some"

CallsFor(e) == {j \in DOMAIN callbacks : callbacks[j].cb # "maintain_peers" /\ callbacks[j].ev = e.id}

ExpectedCallback(e) ==
    CASE e.kind = "CustomMessage" -> "on_message"
      [] e.kind = "OpenedCustomProtocol" -> "on_peer_connected"
      [] e.kind = "ClosedCustomProtocol" -> "on_peer_disconnected"
      [] OTHER -> "none"

\* C1 - Dispatch completeness: every CustomMessage, OpenedCustomProtocol or
\* ClosedCustomProtocol event that poll() has returned to the running task is
\* dispatched by exactly one callback, the one of its kind, with the peer
\* index of the event and, for CustomMessage, its payload.
C1_DispatchCompleteness ==
    \A i \in DOMAIN polled :
        (polled[i].kind \in DispatchableKinds /\ ~InFlight(i)) =>
            /\ Cardinality(CallsFor(polled[i])) = 1
            /\ \A j \in CallsFor(polled[i]) :
                  /\ callbacks[j].cb = ExpectedCallback(polled[i])
                  /\ callbacks[j].node_index = polled[i].node_index
                  /\ (polled[i].kind = "CustomMessage" => callbacks[j].data = polled[i].data)

\* A CustomMessage with a payload has been dispatched after the peer connected.
C1_Witness ==
    \E j, k \in DOMAIN callbacks :
        /\ j < k
        /\ callbacks[j].cb = "on_peer_connected"
        /\ callbacks[k].cb = "on_message"
        /\ callbacks[k].data \in Payloads
        /\ callbacks[k].outcome = "returned"

MaintainCalls == SelectSeq(callbacks, LAMBDA c : c.cb = "maintain_peers")
EventCalls == SelectSeq(callbacks, LAMBDA c : c.cb # "maintain_peers")

\* C2 - Race termination: once the transport poll has yielded end-of-stream
\* (the event for_each completed with Ok), the poll in progress resolves
\* select_all, the task terminates, and no maintain_peers call is made any more.
C2_RaceTermination ==
    [][netBr = Ok => /\ pc \in {"select_done", "done"}
                     /\ pc' \in {"select_done", "done"}
                     /\ (pc = "select_done" /\ pc' # pc => task' = "done")
                     /\ callbacks' = callbacks]_vars

\* The transport ended and the task is done while the clock is still live.
C2_Witness ==
    /\ task = "done"
    /\ netBr = Ok
    /\ timerBr = NoResult
    /\ ~tickEnded /\ tickFail = NoErr
    /\ Len(MaintainCalls) >= 1

FirstCompleted == IF timerBr # NoResult THEN timerBr ELSE netBr

ServiceErrorLogged(e) ==
    \E i \in DOMAIN logs : logs[i].msg = "service error" /\ logs[i].arg = e

\* C3 (as stated) - when the transport poll returns an error the task ends
\* with that same error for whoever drives it, the task returned by
\* Service::new included.
C3_Original ==
    (task = "done" /\ timerBr = NoResult /\ pollRes.res = "Err") =>
        /\ outcome = <<Err(pollRes.err)>>
        /\ outerOutcome = <<Err(pollRes.err)>>

\* C3 (amended) - the task yields exactly one terminal outcome; it is Ok when
\* the branch that completed first ended successfully; when the transport poll
\* returns an error, service_task ends with that same error, while the task
\* returned by Service::new logs that error and ends with the unit error ().
C3_TaskOutcome ==
    /\ Len(outcome) = Len(outerOutcome)
    /\ Len(outcome) = IF task = "done" THEN 1 ELSE 0
    /\ task = "done" =>
          /\ FirstCompleted.kind = "Ok" => (outcome = <<Ok>> /\ outerOutcome = <<Ok>>)
          /\ (timerBr = NoResult /\ pollRes.res = "Err") =>
                /\ outcome = <<Err(pollRes.err)>>
                /\ outerOutcome = <<Err(Unit)>>
                /\ ServiceErrorLogged(pollRes.err)

\* The task has ended on a transport poll error.
C3_Witness ==
    /\ task = "done"
    /\ timerBr = NoResult
    /\ pollRes.res = "Err"
    /\ pollRes.err \in PollErrors

TimerErrorLogged ==
    \E i \in DOMAIN logs : logs[i].msg = "Error in the propagation timer"

\* C4 (as stated) - after the tick source has reported an error (logged), the
\* maintenance branch keeps running and the task has not terminated because
\* of it.
C4_Original ==
    TimerErrorLogged => (timerBr = NoResult /\ (netBr = NoResult => task # "done"))

\* C4 (amended) - when the tick source reports an error, the error is logged,
\* the maintenance branch completes with Ok, the task terminates with Ok in
\* the same poll, and no later tick triggers maintain_peers.
C4_TickErrorEndsTask ==
    [][TimerErrorLogged' => /\ timerBr' = Ok
                            /\ pc' \in {"select_done", "done"}
                            /\ (task' = "done" => outcome' = <<Ok>>)
                            /\ (TimerErrorLogged => callbacks' = callbacks)]_vars

\* A tick error ended the task although the transport was still live and a
\* maintenance call had been made before.
C4_Witness ==
    /\ TimerErrorLogged
    /\ task = "done"
    /\ netBr = NoResult
    /\ ~netEnded /\ ~netFail
    /\ Len(MaintainCalls) >= 1

\* C5 - Mutual exclusion: at most one operation (the poll of the event
\* branch, an adapter command of a callback, an adapter command of the caller
\* thread) holds the network handle in every reachable state.
C5_MutualExclusion == Cardinality(lockHolders) <= 1

\* The caller thread holds the handle while the event branch waits for it.
C5_Witness ==
    /\ lockHolders = {"caller_adapter"}
    /\ pc = "net_lock"
    /\ task = "running"

\* C6 - Construction failure: when start_service fails, Service::new returns
\* an error wrapping the cause, no Service and no task exist, and nothing is
\* ever polled or dispatched.
C6_ConstructionFailure ==
    startResult.kind = "Err" =>
        /\ newResult.kind = "Err"
        /\ \E c \in StartErrors : startResult.err = c /\ newResult.err = "Error(" \o c \o ")"
        /\ ~service
        /\ task = "none"
        /\ callbacks = <<>>
        /\ ~everPolled
        /\ outcome = <<>>

\* Service::new has failed.
C6_Witness == newResult.kind = "Err" /\ startResult = Err("AddrInUse")

\* C7 - Lazy task: between a successful Service::new and the first time the
\* task is driven there is no maintain_peers call, no event callback and no
\* poll of the transport, whatever ticks have elapsed or events are pending.
C7_LazyTask ==
    task = "created" =>
        /\ callbacks = <<>>
        /\ ~everPolled
        /\ polled = <<>>
        /\ tickNo = 0
        /\ pc = "idle"
        /\ lockHolders = {}
        /\ liveAdapters = {}

\* The task is built and not driven while ticks and events are pending.
C7_Witness ==
    /\ task = "created"
    /\ pendingTicks >= 2
    /\ Len(netQ) >= 2

DispatchablePolled == SelectSeq(polled, LAMBDA e : e.kind \in DispatchableKinds)

\* C8 - FIFO within a branch: the callbacks of the event branch are, in order,
\* the dispatchable events in the order poll() returned them (all but the one
\* still on its way to the closure), and maintain_peers calls are in tick order.
C8_Fifo ==
    /\ LET n == Len(EventCalls)
           m == Len(DispatchablePolled)
       IN /\ n = IF Len(polled) > 0 /\ InFlight(Len(polled))
                    /\ polled[Len(polled)].kind \in DispatchableKinds
                 THEN m - 1 ELSE m
          /\ \A i \in 1..n : EventCalls[i].ev = DispatchablePolled[i].id
    /\ \A k \in DOMAIN MaintainCalls : MaintainCalls[k].tick = k

\* Two events and two ticks have been dispatched.
C8_Witness ==
    /\ Len(EventCalls) >= 2
    /\ Len(MaintainCalls) >= 2
    /\ EventCalls[1].outcome = "returned"

MaintainReturning ==
    /\ pc = "in_callback" /\ branch = "timer"
    /\ pc' \notin {"in_callback", "adapter_cmd"}

\* C9 - Tick resilience: whatever happened inside maintain_peers, its return
\* leaves the maintenance branch and the task running and polling the
\* Interval again; and a tick the Interval yields to the running branch
\* starts the next maintain_peers call.
C9_TickResilience ==
    [][/\ MaintainReturning =>
            (timerBr' = NoResult /\ task' = "running" /\ pc' = "timer_poll")
       /\ (pc = "timer_poll" /\ pendingTicks > 0 /\ pc' # pc) =>
            /\ pc' = "in_callback"
            /\ Len(callbacks') = Len(callbacks) + 1
            /\ callbacks'[Len(callbacks')].cb = "maintain_peers"
            /\ callbacks'[Len(callbacks')].tick = tickNo + 1]_vars

\* maintain_peers failed on one tick and is being called on the next one.
C9_Witness ==
    /\ pc = "in_callback" /\ branch = "timer"
    /\ lastMaintain = "failed"
    /\ callbacks[Len(callbacks)].tick >= 2

TaskAdapters == {x \in liveAdapters : x.owner = "task"}

\* C10 (as stated) - every maintain_peers call and every event dispatch
\* receives an adapter.
C10_Original == \A j \in DOMAIN callbacks : callbacks[j].adapter # 0

\* C10 (amended) - every maintain_peers, on_message and on_peer_connected call
\* receives an adapter built for that call from the network handle and the
\* protocol identifier, on_peer_disconnected receives none; no adapter is
\* passed to two callbacks, and no adapter of the task is alive once the
\* closure it was built in has returned.
C10_AdapterScoping ==
    /\ \A j \in DOMAIN callbacks :
          /\ callbacks[j].cb \in {"maintain_peers", "on_message", "on_peer_connected"}
                => callbacks[j].adapter # 0
          /\ callbacks[j].cb = "on_peer_disconnected" => callbacks[j].adapter = 0
          /\ \A k \in DOMAIN callbacks :
                (j # k /\ callbacks[j].adapter # 0) => callbacks[j].adapter # callbacks[k].adapter
    /\ TaskAdapters = IF Executing THEN {NetSyncIo(taskAdapter, "task")} ELSE {}
    /\ (Executing /\ callbacks[Len(callbacks)].adapter # 0)
          => callbacks[Len(callbacks)].adapter = taskAdapter
    /\ \A x \in liveAdapters : x.network = "network_service" /\ x.protocol_id = "protocol_id"

\* A second callback runs with its own adapter after the first one returned.
C10_Witness ==
    /\ Len(callbacks) >= 2
    /\ Executing
    /\ callbacks[1].adapter # 0
    /\ callbacks[Len(callbacks)].adapter # 0
    /\ TaskAdapters = {NetSyncIo(callbacks[Len(callbacks)].adapter, "task")}

RemoteEvents(m) == {k \in DOMAIN remoteQ : remoteQ[k].id = m.id}
RemoteCalls(m) == {k \in DOMAIN remoteCallbacks : remoteCallbacks[k].ev = m.id}

C13_OtherIgnored ==
    /\ \A i \in DOMAIN polled :
          polled[i].kind \notin DispatchableKinds =>
              /\ \A j \in DOMAIN callbacks : callbacks[j].ev # polled[i].id
              /\ \A k \in DOMAIN polled :
                    (k > i /\ polled[k].kind \in DispatchableKinds /\ ~InFlight(k)) =>
                        /\ Cardinality(CallsFor(polled[k])) = 1
                        /\ \A j \in CallsFor(polled[k]) :
                              callbacks[j].cb = ExpectedCallback(polled[k])
    /\ netBr # NoResult => pollRes.res \in {"None", "Err"}
    /\ (task = "done" /\ timerBr = NoResult) => pollRes.res \in {"None", "Err"}

\* An unrecognised event was polled and ignored, and the event polled after
\* it has been dispatched while the task keeps running.
C13_Witness ==
    /\ Len(polled) = 2
    /\ polled[1].kind = "Other"
    /\ polled[2].kind = "OpenedCustomProtocol"
    /\ Len(callbacks) = 1
    /\ callbacks[1].cb = "on_peer_connected"
    /\ callbacks[1].outcome = "returned"
    /\ task = "running"
    /\ netBr = NoResult

\* C14 - Race is symmetric: once the tick stream has ended and the timer
\* future has completed, the poll in progress resolves select_all without
\* polling the transport, the task completes with Ok, and no event is polled
\* and no callback made from then on, even though the transport has events.
C14_RaceSymmetric ==
    [][(timerBr = Ok /\ tickEnded) =>
           /\ pc \in {"select_done", "done"}
           /\ pc' \in {"select_done", "done"}
           /\ polled' = polled
           /\ pollRes' = pollRes
           /\ callbacks' = callbacks
           /\ netBr' = NoResult
           /\ (pc = "select_done" /\ pc' # pc =>
                  task' = "done" /\ outcome' = <<Ok>> /\ outerOutcome' = <<Ok>>)]_vars

\* The tick stream ended and the task is done with Ok while the transport is
\* live and holds an event that was never polled.
C14_Witness ==
    /\ task = "done"
    /\ tickEnded
    /\ timerBr = Ok
    /\ netBr = NoResult
    /\ outcome = <<Ok>>
    /\ netQ # <<>>
    /\ ~netEnded /\ ~netFail
    /\ Len(MaintainCalls) >= 1

\* C15 - No cross-branch ordering: neither branch defers to the other.  A
\* tick that is ready when the timer future is polled is dispatched although
\* an event is ready too, and an event that is ready when the network future
\* is polled is polled and dispatched although a tick is ready too; which of
\* the two goes first depends only on which future is being polled when both
\* become ready, so both orders occur.
C15_NoCrossBranchOrder ==
    [][/\ (pc = "timer_poll" /\ pendingTicks > 0 /\ netQ # <<>> /\ pc' # pc) =>
              /\ Len(callbacks') = Len(callbacks) + 1
              /\ callbacks'[Len(callbacks')].cb = "maintain_peers"
              /\ polled' = polled
              /\ netQ' = netQ
              /\ tickFirst'
       /\ (pc = "net_poll" /\ pendingTicks > 0 /\ netQ # <<>> /\ pc' # pc) =>
              /\ polled' = Append(polled, Head(netQ))
              /\ callbacks' = callbacks
       /\ (pc = "net_polled" /\ pendingTicks > 0 /\ pollRes.res = "Some"
             /\ pollRes.event.kind \in DispatchableKinds /\ pc' # pc) =>
              /\ Len(callbacks') = Len(callbacks) + 1
              /\ callbacks'[Len(callbacks')].cb = ExpectedCallback(pollRes.event)
              /\ callbacks'[Len(callbacks')].ev = pollRes.event.id
              /\ pendingTicks' = pendingTicks]_vars

\* One run with both orders: the event whose callback is executing was
\* waiting when the maintain_peers call before it started, and it is
\* executing while the next tick is due.
C15_Witness ==
    /\ tickFirst
    /\ pc = "in_callback"
    /\ branch = "network"
    /\ pendingTicks > 0
    /\ Len(callbacks) = 2
    /\ callbacks[1].cb = "maintain_peers"
    /\ callbacks[1].outcome = "returned"
    /\ task = "running"

\* C16 - No lock held across a callback: the event branch holds the mutex of
\* the network handle only while it polls, the task holds no lock when a
\* callback of either branch starts or runs outside an adapter command, so a
\* command issued inside a callback finds the mutex free unless the caller
\* thread is holding it for its own command, and the task never waits for a
\* lock it holds itself.
C16_NoLockAcrossCallback ==
    /\ "poll" \in lockHolders <=> pc = "net_poll"
    /\ "task_adapter" \in lockHolders <=> pc = "adapter_cmd"
    /\ pc = "in_callback" =>
          /\ lockHolders \subseteq {"caller_adapter"}
          /\ (caller = "idle" => AdapterLock(lockHolders))
    /\ pc = "net_lock" => (caller = "idle" => PollLock(lockHolders))

\* A command issued through the adapter inside an event callback holds the
\* mutex that the poll before it had taken and released.
C16_Witness ==
    /\ pc = "adapter_cmd"
    /\ branch = "network"
    /\ lockHolders = {"task_adapter"}
    /\ pollRes.res = "Some"
    /\ callbacks[Len(callbacks)].cb = "on_message"
    /\ callbacks[Len(callbacks)].outcome = "running"

\* C17 - Callbacks are serialised: of the callbacks the task has started,
\* all but the latest have returned, and the latest is still executing
\* exactly while the task is inside a callback; so nothing is dispatched,
\* from either branch, until the executing callback returns.
C17_CallbacksSerialised ==
    /\ \A j \in DOMAIN callbacks :
          j < Len(callbacks) => callbacks[j].outcome = "returned"
    /\ Executing <=> (callbacks # <<>> /\ callbacks[Len(callbacks)].outcome = "running")
    /\ Executing => (pollRes.res = "Some" <=> branch = "network")

\* A callback is executing while a tick is due and an event is waiting:
\* both stay undispatched.
C17_Witness ==
    /\ pc = "in_callback"
    /\ Len(callbacks) >= 2
    /\ callbacks[Len(callbacks)].outcome = "running"
    /\ pendingTicks > 0
    /\ netQ # <<>>

\* C18 - One maintenance call per tick: the maintain_peers calls are exactly
\* the ticks the Interval has yielded, one call per tick and in tick order;
\* every tick that fell due is either still pending or has had its call, so
\* none is coalesced or skipped and no call is made without a tick.
C18_OneCallPerTick ==
    LET calls == MaintainCalls
    IN /\ Len(calls) = tickNo
       /\ \A i \in DOMAIN calls : calls[i].tick = i
       /\ elapsed = pendingTicks + Len(calls)

\* Two ticks were due at the same poll: the call for the first is executing
\* and the second is still pending.
C18_Witness ==
    /\ elapsed = 2
    /\ pendingTicks = 1
    /\ Len(MaintainCalls) = 1
    /\ pc = "in_callback"
    /\ branch = "timer"
    /\ task = "running"

\* C19 - The maintenance branch never completes with an error: the timer
\* future is either incomplete or Ok, and it is Ok once the tick stream has
\* reported an error; an error outcome of service_task is the error of a
\* transport poll, taken while the timer future was incomplete.
C19_TimerBranchNeverFails ==
    /\ timerBr \in {NoResult, Ok}
    /\ timerBr = NoResult => ~TimerErrorLogged
    /\ \A i \in DOMAIN outcome :
          outcome[i].kind = "Err" =>
              /\ outcome[i].err \in PollErrors
              /\ pollRes = PollErr(outcome[i].err)
              /\ netBr = Err(outcome[i].err)
              /\ timerBr = NoResult

\* The tick stream reported an error after the transport had been polled:
\* the timer future completed with Ok and so did the task.
C19_Witness ==
    /\ TimerErrorLogged
    /\ timerBr = Ok
    /\ ~tickEnded
    /\ everPolled
    /\ outcome = <<Ok>>
    /\ outerOutcome = <<Ok>>

====
